---- MODULE Spec2Model ----
(***************************************************************************)
(* Model of the metadata synchronisation engine of datagovindia:           *)
(* metadata.py (record normalisation, page fetch, full and incremental     *)
(* sync, search) over the two tables of db.py (resources, resources_fts).  *)
(*                                                                         *)
(* A text is a sequence of one-character strings.  An identifier is the    *)
(* pair of its identity and its length, [n, len].  A datetime is a natural *)
(* number of seconds; Python's None is the value None below.               *)
(***************************************************************************)
EXTENDS Integers, Sequences, FiniteSets, TLC

\* ------------------------------------------------------------------------
\* Bounds of the model
\* ------------------------------------------------------------------------
NumIds == 2
MaxRuns == 2
MaxFaults == 1
MaxRungs == 11
MaxBatches == 3
MaxTicks == 3

\* ------------------------------------------------------------------------
\* Program constants
\* ------------------------------------------------------------------------
None == -1
IndexNameLen == 36
FullLimit == 5000
StartLimit == 10
LimitCap == 5000
DatetimeMax == 9999
DefaultMaxResults == 10
RefreshInterval == 60        \* timedelta(hours=1), in minutes

\* ------------------------------------------------------------------------
\* Texts
\* ------------------------------------------------------------------------
Space == " "
EmptyText == << >>
DefaultSource == <<"d", "a", "t", "a", ".", "g", "o", "v", ".", "i", "n">>

LowerChar(c) ==
    CASE c = "A" -> "a"
      [] c = "B" -> "b"
      [] c = "C" -> "c"
      [] c = "G" -> "g"
      [] OTHER -> c

Lower(text) == [i \in 1..Len(text) |-> LowerChar(text[i])]

\* re.sub(" +", " ", text): every run of spaces becomes one space
RECURSIVE CollapseSpaces(_)
CollapseSpaces(text) ==
    IF Len(text) < 2 THEN text
    ELSE IF text[1] = Space /\ text[2] = Space THEN CollapseSpaces(Tail(text))
    ELSE <<text[1]>> \o CollapseSpaces(Tail(text))

\* str.strip() restricted to the space character
Strip(text) ==
    LET solid == {i \in 1..Len(text) : text[i] # Space}
    IN  IF solid = {} THEN EmptyText
        ELSE LET lo == CHOOSE i \in solid : \A j \in solid : i <= j
                 hi == CHOOSE i \in solid : \A j \in solid : i >= j
             IN  SubSeq(text, lo, hi)

clean_text(text) == Strip(CollapseSpaces(text))

\* ------------------------------------------------------------------------
\* Timestamps.  A raw timestamp is [kind, v, ms]: kind "int" is a string of
\* digits worth v seconds, written in seconds (ms = FALSE) or in
\* milliseconds (ms = TRUE, which datetime.fromtimestamp rejects as out of
\* range); kind "junk" is a string int() rejects.
\* ------------------------------------------------------------------------
RawSec(v) == [kind |-> "int", v |-> v, ms |-> FALSE]
RawMs(v) == [kind |-> "int", v |-> v, ms |-> TRUE]
RawJunk == [kind |-> "junk", v |-> 0, ms |-> FALSE]

get_timestamp(t) ==
    IF t.kind = "int" /\ ~t.ms THEN t.v          \* fromtimestamp(int(t))
    ELSE IF t.kind = "int" THEN t.v              \* fromtimestamp(int(t) / 1000)
    ELSE None

\* ------------------------------------------------------------------------
\* Raw records and ResourceMetadata.  A raw record is [keys, index_name,
\* title, org, source, created, updated]; keys is the set of keys the raw
\* dict carries, a field outside keys is read through its .get default.
\* desc, org_type, sector and field are normalised like title, source, org
\* and org and are left out.
\* ------------------------------------------------------------------------
AllKeys == {"index_name", "title", "org", "source", "created", "updated"}

RawGet(raw, key, default) == IF key \in raw.keys THEN raw[key] ELSE default

\* list({...}): the distinct elements in some order
SetToList(S) ==
    LET RECURSIVE build(_)
        build(T) == IF T = {} THEN << >>
                    ELSE LET x == CHOOSE y \in T : TRUE
                         IN  <<x>> \o build(T \ {x})
    IN  build(S)

from_raw(raw) ==
    [ index_name |-> raw.index_name,
      title      |-> clean_text(RawGet(raw, "title", EmptyText)),
      created    |-> get_timestamp(RawGet(raw, "created", RawJunk)),
      updated    |-> get_timestamp(RawGet(raw, "updated", RawJunk)),
      org        |-> SetToList({clean_text(o) : o \in
                                  {RawGet(raw, "org", << >>)[i] :
                                     i \in 1..Len(RawGet(raw, "org", << >>))}}),
      source     |-> Lower(RawGet(raw, "source", DefaultSource)) ]

\* from_raw_records without the length check
from_raw_recordsUnfiltered(raws) ==
    IF \E i \in 1..Len(raws) : "index_name" \notin raws[i].keys
    THEN [status |-> "KeyError", resources |-> << >>]
    ELSE [status |-> "ok", resources |-> [p \in 1..Len(raws) |-> from_raw(raws[p])]]

\* FetchedBatch.from_raw_records: "ok" with the records whose identifier
\* has 36 characters, or "KeyError" when a record has no index_name
from_raw_records(raws) ==
    IF \E i \in 1..Len(raws) : "index_name" \notin raws[i].keys
    THEN [status |-> "KeyError", resources |-> << >>]
    ELSE [status |-> "ok",
          resources |->
            LET Kept(r) == ~(r.index_name.len # IndexNameLen)
                Each(kept) == [p \in 1..Len(kept) |-> from_raw(kept[p])]
            IN  Each(SelectSeq(raws, Kept))]

\* ------------------------------------------------------------------------
\* Table rows.  asdict(r) is the row of the resources table; the row of
\* resources_fts holds the text columns, a list serialised by json.dumps.
\* ------------------------------------------------------------------------
Quote == "\""

RECURSIVE JoinItems(_)
JoinItems(list) ==
    IF list = << >> THEN << >>
    ELSE <<Quote>> \o Head(list) \o <<Quote>>
         \o (IF Len(list) > 1 THEN <<",", Space>> ELSE << >>)
         \o JoinItems(Tail(list))

json_dumps(list) == <<"[">> \o JoinItems(list) \o <<"]">>

\* fts = {c: res[c] if isinstance(res[c], str) else json.dumps(res[c])}
FtsValues(res) ==
    [ index_name |-> res.index_name,
      title      |-> res.title,
      org        |-> json_dumps(res.org),
      source     |-> res.source ]

\* INSERT INTO resources_fts(cols) SELECT cols FROM resources: a JSON
\* column is copied as the text SQLAlchemy stored for it
FtsSelect(row) ==
    [ index_name |-> row.index_name,
      title      |-> row.title,
      org        |-> json_dumps(row.org),
      source     |-> row.source ]

\* ------------------------------------------------------------------------
\* The remote listing.  The catalog is a sequence of entries [raw, n]: n
\* consecutive records that share raw's timestamps; n > 1 only for records
\* whose identifier is not 36 characters long (their identities differ and
\* never matter).  gen_url asks for the catalog sorted by sort_by,
\* descending, records without that timestamp last.
\* ------------------------------------------------------------------------
\* sorted with e put behind the elements whose key is not greater
RECURSIVE InsertByKey(_, _)
InsertByKey(sorted, e) ==
    IF sorted = << >> \/ e.key >= sorted[Len(sorted)].key THEN Append(sorted, e)
    ELSE Append(InsertByKey(SubSeq(sorted, 1, Len(sorted) - 1), e), sorted[Len(sorted)])

RECURSIVE SortPairs(_)
SortPairs(pairs) ==
    IF pairs = << >> THEN << >>
    ELSE InsertByKey(SortPairs(SubSeq(pairs, 1, Len(pairs) - 1)), pairs[Len(pairs)])

Items(sorted) == [p \in 1..Len(sorted) |-> sorted[p].item]

\* s in ascending order of key, elements of equal key in the order of s
StableSort(s, key) ==
    Items(SortPairs([i \in 1..Len(s) |-> [key |-> key[i], item |-> s[i]]]))

Listing(catalog, sort_by) ==
    StableSort(catalog,
        [i \in 1..Len(catalog) |->
            LET t == get_timestamp(RawGet(catalog[i].raw, sort_by, RawJunk))
            IN  IF t = None THEN 1 ELSE 0 - t])

RECURSIVE StartOf(_, _)
StartOf(listing, i) ==
    IF i <= 1 THEN 0 ELSE StartOf(listing, i - 1) + listing[i - 1].n

TotalOf(catalog) == StartOf(catalog, Len(catalog) + 1)

\* the raw records at positions offset .. offset + limit - 1 of a listing
\* whose first entry begins at position start
RECURSIVE PageFrom(_, _, _, _)
PageFrom(listing, start, offset, limit) ==
    IF listing = << >> \/ start >= offset + limit THEN << >>
    ELSE (IF start + Head(listing).n > offset THEN <<Head(listing).raw>> ELSE << >>)
         \o PageFrom(Tail(listing), start + Head(listing).n, offset, limit)

PageRaw(listing, offset, limit) == PageFrom(listing, 0, offset, limit)

\* FetchedBatch.new: outcome is what the request meets: "ok", "malformed"
\* (resp.json() or ["records"] fails inside the try) or "timeout"
\* (requests raises inside fetch, before the try)
new(catalog, offset, limit, sort_by, outcome) ==
    IF outcome = "timeout"
    THEN [status |-> "Timeout", resources |-> << >>]
    ELSE IF outcome = "malformed"
    THEN [status |-> "ok", resources |-> << >>]
    ELSE LET got == from_raw_records(
                      PageRaw(Listing(catalog, sort_by), offset, limit))
         IN  IF got.status = "ok" THEN got
             ELSE [status |-> "ok", resources |-> << >>]

recently_updated(catalog, offset, limit, outcome) ==
    new(catalog, offset, limit, "updated", outcome)

recently_created(catalog, offset, limit, outcome) ==
    new(catalog, offset, limit, "created", outcome)

\* the batches of _refresh_resources_full: range(0, total, 5000), limit
\* rewritten in place when a batch would pass the total
\* BuildBatches that leaves out the batch that would pass the total
RECURSIVE BuildBatchesDropsRemainder(_, _, _)
BuildBatchesDropsRemainder(offset, limit, total) ==
    IF offset >= total \/ offset + limit > total THEN << >>
    ELSE <<[offset |-> offset, limit |-> limit]>>
         \o BuildBatchesDropsRemainder(offset + FullLimit, limit, total)

\* BuildBatches that gives every batch the full limit
RECURSIVE BuildBatchesUntruncated(_, _, _)
BuildBatchesUntruncated(offset, limit, total) ==
    IF offset >= total THEN << >>
    ELSE <<[offset |-> offset, limit |-> limit]>>
         \o BuildBatchesUntruncated(offset + FullLimit, limit, total)

RECURSIVE BuildBatches(_, _, _)
BuildBatches(offset, limit, total) ==
    IF offset >= total THEN << >>
    ELSE LET l == IF offset + limit > total THEN total % limit ELSE limit
         IN  <<[offset |-> offset, limit |-> l]>>
             \o BuildBatches(offset + FullLimit, l, total)

Min(a, b) == IF a <= b THEN a ELSE b

\* SortDelta that leaves the list in fetch order
SortDeltaUnsorted(list, field) == list

\* updated.sort(key=lambda r: r.updated or datetime.max): ascending, stable
SortDelta(list, field) ==
    StableSort(list,
        [i \in 1..Len(list) |->
            IF list[i][field] = None THEN DatetimeMax ELSE list[i][field]])

\* UpdatedVerdict with ids[name] > r.updated as the cutover test
UpdatedVerdictStrict(resources, known) ==
    LET stop == {i \in 1..Len(resources) :
                    /\ resources[i].index_name \in DOMAIN known
                    /\ \/ known[resources[i].index_name] = None
                       \/ resources[i].updated = None
                       \/ known[resources[i].index_name] > resources[i].updated}
    IN  IF stop = {} THEN "none"
        ELSE LET i == CHOOSE k \in stop : \A j \in stop : k <= j
             IN  IF \/ known[resources[i].index_name] = None
                    \/ resources[i].updated = None
                 THEN "TypeError" ELSE "cut"

\* the for loop of the updated scan over one page: "cut" when it meets a
\* known record with ids[name] >= r.updated, "TypeError" when that
\* comparison has None on either side, "none" when it runs to the end
UpdatedVerdict(resources, known) ==
    LET stop == {i \in 1..Len(resources) :
                    /\ resources[i].index_name \in DOMAIN known
                    /\ \/ known[resources[i].index_name] = None
                       \/ resources[i].updated = None
                       \/ known[resources[i].index_name] >= resources[i].updated}
    IN  IF stop = {} THEN "none"
        ELSE LET i == CHOOSE k \in stop : \A j \in stop : k <= j
             IN  IF \/ known[resources[i].index_name] = None
                    \/ resources[i].updated = None
                 THEN "TypeError" ELSE "cut"

\* the for loop of the created scan over one page
CreatedVerdict(resources, known) ==
    IF \E i \in 1..Len(resources) : resources[i].index_name \in DOMAIN known
    THEN "cut" ELSE "none"

\* ------------------------------------------------------------------------
\* Queries.  A query is [title, org, source, max_results]; a predicate that
\* is None or "" is falsy and adds nothing to the WHERE clause.
\* ------------------------------------------------------------------------
\* column MATCH term under tokenize="trigram": the term, of three
\* characters or more, occurs in the column's text, letter case ignored
Contains(text, term) ==
    \E i \in 1..(Len(text) - Len(term) + 1) : SubSeq(text, i, i + Len(term) - 1) = term

Match(text, term) ==
    /\ Len(term) >= 3
    /\ Contains(Lower(text), Lower(term))

Supplied(q) == {f \in {"title", "org", "source"} : q[f] # EmptyText}

\* metadata.search: and_(*where) over no clause is no WHERE clause at all;
\* the rank order of the matching rows is taken as their table order
search(ftsTable, rowTable, q) ==
    LET Hit(r) == \A f \in Supplied(q) : Match(r[f], q[f])
        Capped(hits) == SubSeq(hits, 1, Min(Len(hits), q.max_results))
        Names(hits) == {hits[i].index_name : i \in 1..Len(hits)}
        Rows(found) == LET Found(r) == r.index_name \in found
                       IN  SelectSeq(rowTable, Found)
    IN  Rows(Names(Capped(SelectSeq(ftsTable, Hit))))

\* get_resource_info: the row, or ValueError when there is none
get_resource_info(rowTable, name) ==
    IF \E i \in 1..Len(rowTable) : rowTable[i].index_name = name
    THEN [status |-> "ok",
          row |-> rowTable[CHOOSE i \in 1..Len(rowTable) : rowTable[i].index_name = name]]
    ELSE [status |-> "ValueError", row |-> [index_name |-> name]]

\* SELECT DISTINCT column: each value once, in the order of first occurrence
RECURSIVE Distinct(_)
Distinct(values) ==
    IF values = << >> THEN << >>
    ELSE LET Put(rest, last) ==
                 IF \E i \in 1..Len(rest) : rest[i] = last THEN rest
                 ELSE Append(rest, last)
         IN  Put(Distinct(SubSeq(values, 1, Len(values) - 1)), values[Len(values)])

\* list_sources without .distinct()
list_sourcesAll(rowTable) == [i \in 1..Len(rowTable) |-> rowTable[i].source]

\* list_sources (list_org_types alike): the distinct values of a text column
list_sources(rowTable) ==
    Distinct([i \in 1..Len(rowTable) |-> rowTable[i].source])

\* list_orgs (list_sectors alike): the distinct lists of a JSON column,
\* poured into one set, the set turned into a list
list_orgs(rowTable) ==
    LET Pour(lists) == UNION {{lists[k][i] : i \in 1..Len(lists[k])} :
                                k \in 1..Len(lists)}
    IN  SetToList(Pour(Distinct([i \in 1..Len(rowTable) |-> rowTable[i].org])))

\* list_all_attributes, without org_types and sectors
list_all_attributes(rowTable) ==
    [sources |-> list_sources(rowTable), orgs |-> list_orgs(rowTable)]

\* ------------------------------------------------------------------------
\* State
\* ------------------------------------------------------------------------
VARIABLES
    catalog,    \* the remote catalog
    rows,       \* table resources, in insertion order (committed)
    fts,        \* table resources_fts, in insertion order (committed)
    pc,         \* "idle", "full_insert", "scan_updated", "scan_created", "merge"
    kind,       \* the current or last run: "none", "full", "incremental"
    result,     \* how the last run ended: "none", "done", "raised", "interrupted"
    error,      \* what it raised: "none", "TotalRequest", "Timeout", "TypeError", "IntegrityError"
    page,       \* the last page fetch of the run: what was asked, met and returned
    runs,       \* runs started
    faults,     \* transport faults and interruptions so far
    faulty,     \* a page request of the current or last run met a fault
    ids,        \* incremental: the known map, index_name -> updated
    offset,     \* incremental: the page cursor
    limit,
    updated,    \* incremental: the updated delta
    created,    \* incremental: the created delta
    applied,    \* incremental: records of updated + created committed so far
    total,      \* full: total_apis_available
    batches,    \* full: the (offset, limit) batches
    next,       \* full: the batch whose result is consumed next
    inserted,   \* full: rows inserted
    warned,     \* full: the count discrepancy warning was logged
    futures,    \* full: what each batch's fetch task met, "pending" until it completes
    prev,       \* what the run before the current one left behind
    asked,      \* the last query: "none", "api" (metadata.search), "cli" (the search
                \* command), "list" (list_all_attributes)
    query,      \* its predicates
    found,      \* the rows it returned
    fault,      \* how it failed: "none", "caller_input"
    listed,     \* the attribute listing it returned
    client      \* the DataGovIndia object: its fields, the clock, and the query
                \* operation it is in

store == <<rows, fts>>
incr == <<ids, offset, limit, updated, created, applied>>
full == <<total, batches, next, inserted, warned, futures>>
answer == <<asked, query, found, fault, listed, client>>
vars == <<catalog, rows, fts, pc, kind, result, error, page, runs, faults, faulty,
          ids, offset, limit, updated, created, applied,
          total, batches, next, inserted, warned, futures, prev,
          asked, query, found, fault, listed, client>>

RowIds == {rows[i].index_name : i \in 1..Len(rows)}
FtsIds == {fts[i].index_name : i \in 1..Len(fts)}

NoListing == [sources |-> << >>, orgs |-> << >>]

\* a DataGovIndia object made with auto_refresh, which refreshed when it was
\* made, or without, which leaves last_refreshed_at unset; no query yet
NewClient(auto_refresh) ==
    [auto_refresh |-> auto_refresh,
     last_refreshed_at |-> IF auto_refresh THEN 0 ELSE None,
     now |-> 0, op |-> "none", ran |-> FALSE, full |-> FALSE, at |-> 0,
     outcome |-> "none"]

\* the tables are read through the functions of metadata alone
NoClient == NewClient(FALSE)

NoQuery == [title |-> EmptyText, org |-> EmptyText, source |-> EmptyText,
            max_results |-> DefaultMaxResults]

Query(title, source, max_results) ==
    [title |-> title, org |-> EmptyText, source |-> source, max_results |-> max_results]

Queries ==
    { NoQuery,
      Query(<<"o", "l", "d">>, EmptyText, 1),
      Query(<<"B", Space, "c">>, <<"a", "b", "c">>, DefaultMaxResults) }

Outcomes == IF faults < MaxFaults THEN {"ok", "malformed", "timeout"} ELSE {"ok"}

\* what a run leaves behind; of an incremental run that was stopped in its
\* merge, also the delta it was applying
Snapshot ==
    [kind |-> kind, result |-> result, faulty |-> faulty, rows |-> rows,
     delta |-> IF kind = "incremental" /\ result = "interrupted"
               THEN updated \o created ELSE << >>]

NoSnapshot ==
    [kind |-> "none", result |-> "none", faulty |-> FALSE, rows |-> << >>,
     delta |-> << >>]

NoPage == [sort_by |-> "none", offset |-> 0, limit |-> 0, outcome |-> "none",
           raws |-> << >>, resources |-> << >>]

Fetched(sort_by, off, lim, outcome, batch) ==
    [sort_by |-> sort_by, offset |-> off, limit |-> lim, outcome |-> outcome,
     raws |-> IF outcome = "ok" THEN PageRaw(Listing(catalog, sort_by), off, lim)
              ELSE << >>,
     resources |-> batch.resources]

\* the run ends by raising: uncommitted writes are lost
Raise(cause) ==
    /\ pc' = "idle"
    /\ result' = "raised"
    /\ error' = cause

\* ------------------------------------------------------------------------
\* Initial states: a remote catalog and a local store that an earlier full
\* sync of an earlier catalog left behind (both tables hold the same
\* identifiers, all of 36 characters).
\* ------------------------------------------------------------------------
Name(n, len) == [n |-> n, len |-> len]

\* the raw record of resource n; a missing timestamp is a string int()
\* rejects for odd n and an absent key for even n, which also carries no
\* title, org and source
RawRecord(name, cre, upd) ==
    [ keys       |-> IF name.n % 2 = 1 THEN AllKeys
                     ELSE {"index_name"}
                          \cup (IF cre = RawJunk THEN {} ELSE {"created"})
                          \cup (IF upd = RawJunk THEN {} ELSE {"updated"}),
      index_name |-> name,
      title      |-> <<Space, "a", "b", Space, Space, "c", Space>>,
      org        |-> << <<"x", Space, "y">>, <<"x", Space, Space, "y">> >>,
      source     |-> <<"A", "B", "C">>,
      created    |-> cre,
      updated    |-> upd ]

LocalRow(name, upd) ==
    [ index_name |-> name,
      title      |-> <<"o", "l", "d">>,
      created    |-> 1,
      updated    |-> upd,
      org        |-> << <<"x", Space, "y">> >>,
      source     |-> DefaultSource ]

\* what the remote and the local store hold of one resource
Conf(remote, cre, upd, local, lupd) ==
    [remote |-> remote, cre |-> cre, upd |-> upd, local |-> local, lupd |-> lupd]

Configs ==
    << Conf(FALSE, RawJunk, RawJunk, FALSE, None),     \* nowhere
       Conf(TRUE, RawSec(1), RawSec(1), FALSE, None),  \* new
       Conf(TRUE, RawSec(2), RawJunk, FALSE, None),    \* new, no updated
       Conf(TRUE, RawJunk, RawMs(2), FALSE, None),     \* new, no created
       Conf(TRUE, RawSec(1), RawSec(1), TRUE, 1),      \* known, current
       Conf(TRUE, RawSec(1), RawMs(2), TRUE, 1),       \* known, stale
       Conf(TRUE, RawSec(1), RawSec(1), TRUE, None),   \* known without updated
       Conf(TRUE, RawSec(1), RawJunk, TRUE, 1),        \* remote lost updated
       Conf(FALSE, RawJunk, RawJunk, TRUE, 1) >>       \* gone from the remote

\* one Conf per resource; resources differ in nothing but their number, so
\* the Confs are taken in the order of Configs
Confs ==
    { [i \in 1..NumIds |-> Configs[pick[i]]] :
        pick \in {f \in [1..NumIds -> 1..Len(Configs)] :
                    \A i \in 1..(NumIds - 1) : f[i] <= f[i + 1]} }

Extras == {"none", "short", "nokey", "bulk"}

ExtraEntries(extra) ==
    IF extra = "none" THEN << >>
    ELSE LET raw == RawRecord(Name(0, IndexNameLen - 1), RawSec(2), RawSec(2))
         IN  IF extra = "short" THEN <<[raw |-> raw, n |-> StartLimit]>>
             ELSE IF extra = "bulk" THEN <<[raw |-> raw, n |-> FullLimit]>>
             ELSE <<[raw |-> [raw EXCEPT !.keys = @ \ {"index_name"}], n |-> 1]>>

RECURSIVE CatalogOf(_, _)
CatalogOf(conf, i) ==
    IF i > NumIds THEN << >>
    ELSE (IF conf[i].remote
          THEN <<[raw |-> RawRecord(Name(i, IndexNameLen), conf[i].cre, conf[i].upd),
                  n |-> 1]>>
          ELSE << >>) \o CatalogOf(conf, i + 1)

RECURSIVE LocalOf(_, _)
LocalOf(conf, i) ==
    IF i > NumIds THEN << >>
    ELSE (IF conf[i].local
          THEN <<LocalRow(Name(i, IndexNameLen), conf[i].lupd)>>
          ELSE << >>) \o LocalOf(conf, i + 1)

Init ==
    /\ \E conf \in Confs, extra \in Extras :
          /\ catalog = CatalogOf(conf, 1) \o ExtraEntries(extra)
          /\ rows = LocalOf(conf, 1)
          /\ fts = [i \in 1..Len(LocalOf(conf, 1)) |-> FtsSelect(LocalOf(conf, 1)[i])]
    /\ pc = "idle"
    /\ kind = "none"
    /\ result = "none"
    /\ error = "none"
    /\ page = NoPage
    /\ runs = 0
    /\ faults = 0
    /\ faulty = FALSE
    /\ ids = << >>
    /\ offset = 0
    /\ limit = 0
    /\ updated = << >>
    /\ created = << >>
    /\ applied = 0
    /\ total = 0
    /\ batches = << >>
    /\ next = 0
    /\ inserted = 0
    /\ warned = FALSE
    /\ futures = << >>
    /\ prev = NoSnapshot
    /\ asked = "none"
    /\ query = NoQuery
    /\ found = << >>
    /\ fault = "none"
    /\ listed = NoListing
    /\ client = NoClient

\* ------------------------------------------------------------------------
\* _refresh_resources_full
\* ------------------------------------------------------------------------
\* the locals of _refresh_resources_incremental before its first statement
NoIncr ==
    /\ ids' = << >>
    /\ offset' = 0
    /\ limit' = 0
    /\ updated' = << >>
    /\ created' = << >>
    /\ applied' = 0

\* the locals of _refresh_resources_full before its first statement
NoFull ==
    /\ total' = 0
    /\ batches' = << >>
    /\ next' = 0
    /\ inserted' = 0
    /\ warned' = FALSE
    /\ futures' = << >>

\* a run starts; a behaviour ends with its query, which leaves the tables
\* alone, so the runs after a query are the runs from the state it was asked in
Begin(k, outcome) ==
    /\ pc = "idle"
    /\ asked = "none"
    /\ runs < MaxRuns
    /\ runs' = runs + 1
    /\ kind' = k
    /\ prev' = Snapshot
    /\ faulty' = (outcome # "ok")
    /\ faults' = IF outcome = "ok" THEN faults ELSE faults + 1
    /\ UNCHANGED answer

\* drop_all that knows the resources table only
drop_allResourcesOnly ==
    /\ rows' = << >>
    /\ UNCHANGED fts

\* db.drop_all, db.create_all: both tables are dropped and created empty
drop_all ==
    /\ rows' = << >>
    /\ fts' = << >>

\* drop_all, create_all, the request for the total, the batches
FullStart ==
    \E outcome \in Outcomes :
        /\ Begin("full", outcome)
        /\ drop_all
        /\ IF outcome = "ok"
           THEN /\ total' = TotalOf(catalog)
                /\ batches' = BuildBatches(0, FullLimit, TotalOf(catalog))
                /\ next' = 1
                /\ inserted' = 0
                /\ warned' = FALSE
                /\ futures' = [i \in 1..Len(BuildBatches(0, FullLimit, TotalOf(catalog)))
                                 |-> "pending"]
                /\ pc' = "full_insert"
                /\ error' = "none"
                /\ UNCHANGED result
           ELSE /\ Raise("TotalRequest")
                /\ NoFull
        /\ page' = NoPage
        /\ NoIncr
        /\ UNCHANGED catalog

\* one turn of "for batch in futures" on the result of a task that met
\* outcome: the batch's rows, then commit
InsertBatch(outcome) ==
    LET batch == recently_updated(catalog, batches[next].offset,
                                  batches[next].limit, outcome)
        names == {batch.resources[i].index_name : i \in 1..Len(batch.resources)}
    IN  /\ page' = Fetched("updated", batches[next].offset,
                            batches[next].limit, outcome, batch)
        /\ IF batch.status # "ok"
           THEN /\ Raise("Timeout")
                /\ UNCHANGED <<rows, next, inserted>>
           ELSE IF \/ names \cap RowIds # {}
                   \/ Cardinality(names) # Len(batch.resources)
           THEN /\ Raise("IntegrityError")
                /\ UNCHANGED <<rows, next, inserted>>
           ELSE /\ rows' = rows \o batch.resources
                /\ inserted' = inserted + Len(batch.resources)
                /\ next' = next + 1
                /\ UNCHANGED <<pc, result, error>>
        /\ UNCHANGED <<answer, catalog, fts, kind, runs, incr, total, batches, warned, prev>>

\* the task of the next batch completes and the loop consumes its result
FullInsertBatch ==
    /\ pc = "full_insert"
    /\ next <= Len(batches)
    /\ \E outcome \in Outcomes :
          /\ faults' = IF outcome = "ok" THEN faults ELSE faults + 1
          /\ faulty' = (faulty \/ outcome # "ok")
          /\ InsertBatch(outcome)
    /\ UNCHANGED futures

\* a worker that inserts the rows it fetched itself
TaskWrites ==
    /\ pc = "full_insert"
    /\ \E i \in 1..Len(batches), outcome \in Outcomes :
          /\ futures[i] = "pending"
          /\ futures' = [futures EXCEPT ![i] = outcome]
          /\ faults' = IF outcome = "ok" THEN faults ELSE faults + 1
          /\ faulty' = (faulty \/ outcome # "ok")
          /\ rows' = rows \o recently_updated(catalog, batches[i].offset,
                                               batches[i].limit, outcome).resources
    /\ UNCHANGED <<answer, catalog, fts, pc, kind, result, error, page, runs, incr,
                   total, batches, next, inserted, warned, prev>>

\* executor.map has submitted every batch; the task of any batch completes
\* in a worker process, whatever the other tasks do
TaskCompletes ==
    /\ pc = "full_insert"
    /\ \E i \in 1..Len(batches), outcome \in Outcomes :
          /\ futures[i] = "pending"
          /\ futures' = [futures EXCEPT ![i] = outcome]
          /\ faults' = IF outcome = "ok" THEN faults ELSE faults + 1
          /\ faulty' = (faulty \/ outcome # "ok")
    /\ UNCHANGED <<answer, catalog, store, pc, kind, result, error, page, runs, incr,
                   total, batches, next, inserted, warned, prev>>

\* one turn of "for batch in futures": the iterator yields the results in
\* the order the batches were submitted, each when its task has completed
FullInsertFetched ==
    /\ pc = "full_insert"
    /\ next <= Len(batches)
    /\ futures[next] # "pending"
    /\ InsertBatch(futures[next])
    /\ UNCHANGED <<faults, faulty, futures>>

\* the warning, then the text index rebuilt from the rows
FullIndex ==
    /\ pc = "full_insert"
    /\ next > Len(batches)
    /\ warned' = (inserted # total)
    /\ fts' = [i \in 1..Len(rows) |-> FtsSelect(rows[i])]
    /\ pc' = "idle"
    /\ result' = "done"
    /\ UNCHANGED <<answer, catalog, rows, kind, error, page, runs, faults, faulty,
                   incr, total, batches, next, inserted, futures, prev>>

\* ------------------------------------------------------------------------
\* _refresh_resources_incremental
\* ------------------------------------------------------------------------
UpdatedOf(name) == rows[CHOOSE i \in 1..Len(rows) : rows[i].index_name = name].updated

\* the known map is read, the cursor and the deltas are set up
IncStart ==
    /\ Begin("incremental", "ok")
    /\ ids' = [name \in RowIds |-> UpdatedOf(name)]
    /\ offset' = 0
    /\ limit' = StartLimit
    /\ updated' = << >>
    /\ created' = << >>
    /\ applied' = 0
    /\ pc' = "scan_updated"
    /\ error' = "none"
    /\ page' = NoPage
    /\ NoFull
    /\ UNCHANGED <<catalog, store, result>>

\* Advance whose limit doubles without the cap
AdvanceUncapped ==
    /\ offset' = offset + limit
    /\ limit' = limit * 2

Advance ==
    /\ offset' = offset + limit
    /\ limit' = Min(LimitCap, limit * 2)

\* one turn of the first while loop
ScanUpdated ==
    /\ pc = "scan_updated"
    /\ \E outcome \in Outcomes :
        LET batch == recently_updated(catalog, offset, limit, outcome)
            verdict == UpdatedVerdict(batch.resources, ids)
        IN  /\ faults' = IF outcome = "ok" THEN faults ELSE faults + 1
            /\ faulty' = (faulty \/ outcome # "ok")
            /\ page' = Fetched("updated", offset, limit, outcome, batch)
            /\ IF batch.status # "ok"
               THEN /\ Raise("Timeout")
                    /\ UNCHANGED <<offset, limit, updated>>
               ELSE IF batch.resources = << >> \/ verdict = "cut"
               THEN /\ pc' = "scan_created"
                    /\ UNCHANGED <<result, error, offset, limit, updated>>
               ELSE IF verdict = "TypeError"
               THEN /\ Raise("TypeError")
                    /\ UNCHANGED <<offset, limit, updated>>
               ELSE /\ updated' = updated \o batch.resources
                    /\ Advance
                    /\ UNCHANGED <<pc, result, error>>
    /\ UNCHANGED <<answer, catalog, store, kind, runs, ids, created, applied, full, prev>>

\* one turn of the second while loop; when the loop ends, both deltas are sorted
ScanCreated ==
    /\ pc = "scan_created"
    /\ \E outcome \in Outcomes :
        LET batch == recently_created(catalog, offset, limit, outcome)
            verdict == CreatedVerdict(batch.resources, ids)
        IN  /\ faults' = IF outcome = "ok" THEN faults ELSE faults + 1
            /\ faulty' = (faulty \/ outcome # "ok")
            /\ page' = Fetched("created", offset, limit, outcome, batch)
            /\ IF batch.status # "ok"
               THEN /\ Raise("Timeout")
                    /\ UNCHANGED <<offset, limit, updated, created>>
               ELSE IF batch.resources = << >> \/ verdict = "cut"
               THEN /\ updated' = SortDelta(updated, "updated")
                    /\ created' = SortDelta(created, "created")
                    /\ pc' = "merge"
                    /\ UNCHANGED <<result, error, offset, limit>>
               ELSE /\ created' = created \o batch.resources
                    /\ Advance
                    /\ UNCHANGED <<pc, result, error, updated>>
    /\ UNCHANGED <<answer, catalog, store, kind, runs, ids, applied, full, prev>>

\* UpdateBoth that sets the title and leaves the other columns
UpdateBothTitleOnly(r) ==
    /\ rows' = [i \in 1..Len(rows) |->
                  IF rows[i].index_name = r.index_name
                  THEN [rows[i] EXCEPT !.title = r.title] ELSE rows[i]]
    /\ fts' = [i \in 1..Len(fts) |->
                  IF fts[i].index_name = r.index_name
                  THEN [fts[i] EXCEPT !.title = r.title] ELSE fts[i]]

\* UpdateBoth that never executes fq
UpdateBothRowsOnly(r) ==
    /\ rows' = [i \in 1..Len(rows) |->
                  IF rows[i].index_name = r.index_name THEN r ELSE rows[i]]
    /\ UNCHANGED fts

\* sa.update on both tables, WHERE index_name == r.index_name
UpdateBoth(r) ==
    /\ rows' = [i \in 1..Len(rows) |->
                  IF rows[i].index_name = r.index_name THEN r ELSE rows[i]]
    /\ fts' = [i \in 1..Len(fts) |->
                  IF fts[i].index_name = r.index_name THEN FtsValues(r) ELSE fts[i]]

\* InsertBoth that never executes fq
InsertBothRowsOnly(r) ==
    /\ rows' = Append(rows, r)
    /\ UNCHANGED fts

\* sa.insert into both tables
InsertBoth(r) ==
    /\ rows' = Append(rows, r)
    /\ fts' = Append(fts, FtsValues(r))

\* Remember that leaves the known map as the run read it
RememberNothing(r) == UNCHANGED ids

\* ids[r.index_name] = r.updated
Remember(r) ==
    ids' = [name \in DOMAIN ids \cup {r.index_name} |->
               IF name = r.index_name THEN r.updated ELSE ids[name]]

\* one turn of "for r in updated + created": both writes, then commit
MergeRecord ==
    /\ pc = "merge"
    /\ applied < Len(updated \o created)
    /\ LET r == (updated \o created)[applied + 1]
       IN  /\ IF r.index_name \in DOMAIN ids
              THEN /\ UpdateBoth(r)
                   /\ UNCHANGED <<pc, result, error>>
                   /\ applied' = applied + 1
                   /\ Remember(r)
              ELSE IF r.index_name \in RowIds                 \* IntegrityError
              THEN /\ Raise("IntegrityError")
                   /\ UNCHANGED <<rows, fts, applied, ids>>
              ELSE /\ InsertBoth(r)
                   /\ UNCHANGED <<pc, result, error>>
                   /\ applied' = applied + 1
                   /\ Remember(r)
    /\ UNCHANGED <<answer, catalog, kind, page, runs, faults, faulty, offset, limit,
                   updated, created, full, prev>>

\* the for loop has no record left
MergeDone ==
    /\ pc = "merge"
    /\ applied = Len(updated \o created)
    /\ pc' = "idle"
    /\ result' = "done"
    /\ UNCHANGED <<error, page, answer, catalog, store, kind, runs, faults, faulty, incr, full, prev>>

\* the process is stopped between two commits
Interrupt ==
    /\ pc \in {"full_insert", "merge"}
    /\ faults < MaxFaults
    /\ faults' = faults + 1
    /\ pc' = "idle"
    /\ result' = "interrupted"
    /\ UNCHANGED <<error, page, answer, catalog, store, kind, runs, faulty, incr, full, prev>>

\* ------------------------------------------------------------------------
\* Queries against the committed tables
\* ------------------------------------------------------------------------
\* a query is a call of its own: the locals and the outcome of the run
\* before it are out of its reach
Forget ==
    /\ kind' = "none"
    /\ result' = "none"
    /\ error' = "none"
    /\ page' = NoPage
    /\ faulty' = FALSE
    /\ NoIncr
    /\ NoFull
    /\ prev' = NoSnapshot

\* metadata.search, as DataGovIndia.search calls it
Search ==
    /\ pc = "idle"
    /\ asked = "none"
    /\ \E q \in Queries :
          /\ asked' = "api"
          /\ query' = q
          /\ found' = search(fts, rows, q)
          /\ fault' = "none"
    /\ listed' = NoListing
    /\ Forget
    /\ UNCHANGED <<catalog, store, pc, runs, faults, client>>

\* the search command of __main__: it exits with code 1 before it queries
\* when no predicate is given
SearchCommand ==
    /\ pc = "idle"
    /\ asked = "none"
    /\ \E q \in Queries :
          /\ asked' = "cli"
          /\ query' = q
          /\ IF Supplied(q) = {}
             THEN /\ found' = << >>
                  /\ fault' = "caller_input"
             ELSE /\ found' = search(fts, rows, q)
                  /\ fault' = "none"
    /\ listed' = NoListing
    /\ Forget
    /\ UNCHANGED <<catalog, store, pc, runs, faults, client>>

\* list_all_attributes, as DataGovIndia.list_all_attributes calls it
ListAttributes ==
    /\ pc = "idle"
    /\ asked = "none"
    /\ asked' = "list"
    /\ listed' = list_all_attributes(rows)
    /\ Forget
    /\ UNCHANGED <<catalog, store, pc, runs, faults, query, found, fault, client>>

Next ==
    \/ FullStart
    \/ FullInsertBatch
    \/ FullIndex
    \/ IncStart
    \/ ScanUpdated
    \/ ScanCreated
    \/ MergeRecord
    \/ MergeDone
    \/ Interrupt
    \/ Search
    \/ SearchCommand
    \/ ListAttributes

Spec == Init /\ [][Next]_vars

\* ------------------------------------------------------------------------
\* Properties
\* ------------------------------------------------------------------------
FullSyncCompleted ==
    /\ kind = "full"
    /\ pc = "idle"
    /\ result = "done"
    /\ ~faulty

\* the identifiers of the catalog's records that carry an identifier of 36
\* characters and lie in a batch all of whose records carry an identifier
LoadableNames ==
    LET listing == Listing(catalog, "updated")
        batchOf(i) == StartOf(listing, i) \div FullLimit
        nameless(i) == "index_name" \notin listing[i].raw.keys
        spoiled(b) == \E j \in 1..Len(listing) :
                         /\ nameless(j)
                         /\ StartOf(listing, j) \div FullLimit <= b
                         /\ (StartOf(listing, j) + listing[j].n - 1) \div FullLimit >= b
    IN  {listing[i].raw.index_name :
            i \in {j \in 1..Len(listing) :
                      /\ ~nameless(j)
                      /\ listing[j].raw.index_name.len = IndexNameLen
                      /\ ~spoiled(batchOf(j))}}

C2_SearchRowConsistency ==
    /\ \A i \in 1..Len(fts) : get_resource_info(rows, fts[i].index_name).status = "ok"
    /\ \A i \in 1..Len(found) : get_resource_info(rows, found[i].index_name).status = "ok"

\* a query on title and source answered with a row that a sync run wrote
C2_Witness ==
    /\ asked = "api"
    /\ Supplied(query) = {"title", "source"}
    /\ found # << >>
    /\ found[1].title # <<"o", "l", "d">>
    /\ get_resource_info(rows, found[1].index_name).row = found[1]

\* C3 as stated: the text index and the row store hold the same identifiers
\* in every committed state, the states between the commits of a run
\* included.
C3_Stated == FtsIds = RowIds

\* C3, amended: the two tables hold the same identifiers in the state a full
\* sync leaves when it completes, and no commit of an incremental sync or
\* query breaks that equality once it holds; between the per-batch commits
\* of a full sync the text index is empty.
C3_MirrorKept ==
    [][ /\ (FtsIds = RowIds /\ kind' # "full") => FtsIds' = RowIds'
        /\ (kind' = "full" /\ pc' = "idle" /\ result' = "done") => FtsIds' = RowIds'
        /\ (kind' = "full" /\ pc' = "full_insert") => fts' = << >> ]_vars

C3_Witness ==
    /\ pc = "merge"
    /\ applied >= 1
    /\ Len(rows) > Len(prev.rows)
    /\ FtsIds = RowIds

\* two incremental runs in succession, neither meeting a transport fault,
\* the first one completed
SecondIncremental ==
    /\ kind = "incremental"
    /\ ~faulty
    /\ prev.kind = "incremental"
    /\ prev.result = "done"
    /\ ~prev.faulty

InStore(r) ==
    /\ \E i \in 1..Len(rows) : rows[i] = r
    /\ \E i \in 1..Len(fts) : fts[i] = FtsValues(r)

\* C5: of two records of the updated delta, the one with the smaller
\* updated is committed first, and a record without updated after every
\* record with one: whenever the store holds the later one's update it holds
\* the earlier one's, also when the run is interrupted in between.
C5_MonotonicMergeOrder ==
    kind = "incremental" =>
        \A i, j \in 1..Len(updated) :
            ( /\ updated[i].updated # None
              /\ updated[j].updated = None \/ updated[i].updated < updated[j].updated
              /\ InStore(updated[j]) )
            => InStore(updated[i])

C5_Witness ==
    /\ kind = "incremental"
    /\ pc = "idle"
    /\ result = "interrupted"
    /\ applied = 1
    /\ Len(updated) = 2
    /\ updated[1].updated # None
    /\ updated[2].updated # None
    /\ updated[1].updated < updated[2].updated
    /\ InStore(updated[1])
    /\ ~InStore(updated[2])

\* C6: no row of the row store or of the text index has an identifier whose
\* length is not 36.
C6_IdentityFilter ==
    /\ \A i \in 1..Len(rows) : rows[i].index_name.len = IndexNameLen
    /\ \A i \in 1..Len(fts) : fts[i].index_name.len = IndexNameLen

C6_Witness ==
    /\ page.outcome = "ok"
    /\ \E i \in 1..Len(page.raws) : page.raws[i].index_name.len # IndexNameLen
    /\ page.resources # << >>
    /\ result = "done"
    /\ \E i \in 1..Len(rows) : rows[i] = page.resources[1]

\* C7 as stated: a page request that times out or returns a malformed body
\* gives an empty page and never makes the run raise.
C7_Stated ==
    page.outcome \in {"timeout", "malformed"} =>
        /\ page.resources = << >>
        /\ error = "none"

\* C8 as stated: a missing timestamp, remote or local, never makes a run
\* raise.
C8_Stated == error # "TypeError"

HasValidName(raw) ==
    /\ "index_name" \in raw.keys
    /\ raw.index_name.len = IndexNameLen

\* C9 as stated: a page fetch returns every record of the page whose
\* identifier has 36 characters, whatever the identifiers of the other
\* records of the page.
C9_Stated ==
    page.outcome = "ok" =>
        \A i \in 1..Len(page.raws) :
            HasValidName(page.raws[i]) =>
                \E k \in 1..Len(page.resources) :
                    page.resources[k] = from_raw(page.raws[i])

\* C10 as stated: a search without any predicate fails with the
\* caller-input fault and returns no row.
C10_Stated ==
    (asked \in {"api", "cli"} /\ Supplied(query) = {}) =>
        /\ fault = "caller_input"
        /\ found = << >>

\* C11: a listing returns each distinct source of the row store exactly
\* once, and as orgs exactly the values that occur in some row's org list,
\* none of them twice.
C11_DistinctListing ==
    asked = "list" =>
        /\ {listed.sources[i] : i \in 1..Len(listed.sources)}
              = {rows[i].source : i \in 1..Len(rows)}
        /\ \A i, j \in 1..Len(listed.sources) :
              listed.sources[i] = listed.sources[j] => i = j
        /\ {listed.orgs[i] : i \in 1..Len(listed.orgs)}
              = UNION {{rows[i].org[k] : k \in 1..Len(rows[i].org)} : i \in 1..Len(rows)}
        /\ \A i, j \in 1..Len(listed.orgs) :
              listed.orgs[i] = listed.orgs[j] => i = j

\* a listing of two rows that share their source, one of them written by a
\* sync run
C11_Witness ==
    /\ asked = "list"
    /\ runs >= 1
    /\ Len(rows) = 2
    /\ rows[1].title # rows[2].title
    /\ rows[1].source = rows[2].source
    /\ Len(listed.sources) = 1
    /\ Len(listed.orgs) = 1

\* r ends the updated scan: it is known and its stored updated is not older
Cutover(r, known) ==
    /\ r.index_name \in DOMAIN known
    /\ known[r.index_name] # None
    /\ r.updated # None
    /\ known[r.index_name] >= r.updated

\* C12 as stated: when the updated scan stops at a cutover record, every
\* record of that page that precedes the cutover record is in the updated
\* delta.
C12_Stated ==
    ( /\ kind = "incremental"
      /\ pc = "scan_created"
      /\ page.sort_by = "updated"
      /\ page.outcome = "ok"
      /\ UpdatedVerdict(page.resources, ids) = "cut" )
    => \A i \in 1..Len(page.resources) :
          (\A j \in 1..i : ~Cutover(page.resources[j], ids))
          => \E k \in 1..Len(updated) : updated[k] = page.resources[i]

\* the identifiers the row store held when the run began
KnownAtStart == {prev.rows[i].index_name : i \in 1..Len(prev.rows)}

\* C13 as stated: after an incremental run that met no transport fault,
\* every remote resource with a 36-character identifier that was unknown
\* locally and whose created is greater than that of the first locally
\* known resource of the created-desc listing is in the row store and in
\* the text index.
C13_Stated ==
    (kind = "incremental" /\ pc = "idle" /\ result = "done" /\ ~faulty) =>
        LET listing == Listing(catalog, "created")
            At(k) == get_timestamp(RawGet(listing[k].raw, "created", RawJunk))
            IsKnown(k) == /\ HasValidName(listing[k].raw)
                          /\ listing[k].raw.index_name \in KnownAtStart
        IN  \A i, k \in 1..Len(listing) :
                ( /\ HasValidName(listing[i].raw)
                  /\ listing[i].raw.index_name \notin KnownAtStart
                  /\ IsKnown(k)
                  /\ \A j \in 1..(k - 1) : ~IsKnown(j)
                  /\ At(i) # None /\ At(k) # None /\ At(i) > At(k) )
                => listing[i].raw.index_name \in RowIds \cap FtsIds

\* ------------------------------------------------------------------------
\* The scan cursor on a deep catalog: the remote listing is a ladder whose
\* p-th rung fills the p-th page of a scan that starts at offset 0: one
\* record with a 36-character identifier and, behind it, records with a
\* short identifier, which from_raw_records skips.
\* ------------------------------------------------------------------------
RECURSIVE RungLimit(_)
RungLimit(p) == IF p <= 1 THEN StartLimit ELSE Min(LimitCap, RungLimit(p - 1) * 2)

RECURSIVE Ladder(_)
Ladder(depth) ==
    IF depth = 0 THEN << >>
    ELSE Ladder(depth - 1)
         \o <<[raw |-> RawRecord(Name(NumIds + depth, IndexNameLen), RawSec(1), RawSec(1)),
               n |-> 1],
              [raw |-> RawRecord(Name(0, IndexNameLen - 1), RawSec(1), RawSec(1)),
               n |-> RungLimit(depth) - 1]>>

\* a ladder of any depth; the local store is empty or holds the record of
\* one rung as the remote has it
InitScan ==
    /\ \E depth \in 0..MaxRungs, seen \in 0..MaxRungs :
          /\ seen <= depth
          /\ catalog = Ladder(depth)
          /\ rows = IF seen = 0 THEN << >>
                    ELSE <<from_raw(Ladder(depth)[2 * seen - 1].raw)>>
          /\ fts = IF seen = 0 THEN << >>
                   ELSE <<FtsValues(from_raw(Ladder(depth)[2 * seen - 1].raw))>>
    /\ pc = "idle"
    /\ kind = "none"
    /\ result = "none"
    /\ error = "none"
    /\ page = NoPage
    /\ runs = 0
    /\ faults = 0
    /\ faulty = FALSE
    /\ ids = << >>
    /\ offset = 0
    /\ limit = 0
    /\ updated = << >>
    /\ created = << >>
    /\ applied = 0
    /\ total = 0
    /\ batches = << >>
    /\ next = 0
    /\ inserted = 0
    /\ warned = FALSE
    /\ futures = << >>
    /\ prev = NoSnapshot
    /\ asked = "none"
    /\ query = NoQuery
    /\ found = << >>
    /\ fault = "none"
    /\ listed = NoListing
    /\ client = NoClient

NextScan ==
    \/ IncStart
    \/ ScanUpdated
    \/ ScanCreated
    \/ MergeRecord
    \/ MergeDone

SpecScan == InitScan /\ [][NextScan]_vars

\* C14: throughout an incremental sync 10 <= limit <= 5000; the first
\* request is made at offset 0 with limit 10; every request is made at the
\* cursor; a page that does not end its scan moves offset forward by the
\* limit just used and makes limit min(5000, 2 * limit), a page that ends
\* it leaves the cursor alone; so the next request of the same scan starts
\* where the page before it ended.
C14_ScanCursor ==
    [][ /\ kind' = "incremental" => (StartLimit <= limit' /\ limit' <= LimitCap)
        /\ (pc = "idle" /\ pc' = "scan_updated") =>
               (offset' = 0 /\ limit' = StartLimit)
        /\ (pc \in {"scan_updated", "scan_created"}) =>
               /\ page'.offset = offset /\ page'.limit = limit
               /\ (page = NoPage /\ updated = << >>) => (offset = 0 /\ limit = StartLimit)
               /\ IF pc' = pc
                  THEN /\ offset' = offset + limit
                       /\ limit' = IF 2 * limit <= LimitCap THEN 2 * limit ELSE LimitCap
                  ELSE offset' = offset /\ limit' = limit
               /\ (page.sort_by = page'.sort_by) =>
                      page'.offset = page.offset + page.limit
        /\ (pc = "merge") => (offset' = offset /\ limit' = limit)
      ]_vars

C14_Witness ==
    /\ kind = "incremental"
    /\ pc = "scan_created"
    /\ page.sort_by = "created"
    /\ page.limit = LimitCap
    /\ limit = LimitCap
    /\ offset = page.offset + LimitCap
    /\ updated # << >>
    /\ created # << >>

\* ------------------------------------------------------------------------
\* The merge of the incremental run
\* ------------------------------------------------------------------------
\* table after the statement the merge builds for r: an update of the row
\* of that identifier when it is in known, an insert otherwise
ApplyTo(table, r, value, known) ==
    IF r.index_name \in known
    THEN [i \in 1..Len(table) |->
            IF table[i].index_name = r.index_name THEN value ELSE table[i]]
    ELSE Append(table, value)

\* rowTable after the first k records of delta, known growing with them
RECURSIVE AppliedRows(_, _, _, _)
AppliedRows(rowTable, delta, k, known) ==
    IF k = 0 THEN rowTable
    ELSE LET names == known \cup {delta[i].index_name : i \in 1..(k - 1)}
         IN  ApplyTo(AppliedRows(rowTable, delta, k - 1, known), delta[k], delta[k], names)

\* C15: in an incremental run the committed stores change only by one
\* record's row write and text-index write together, in the order of the
\* delta, so whenever the run can be interrupted the row store is the row
\* store the run found with the first `applied` records of the delta
\* applied, and the text index has had the same records applied.
C15_LockstepCommit ==
    /\ [](kind = "incremental" =>
            rows = AppliedRows(prev.rows, updated \o created, applied, KnownAtStart))
    /\ [][ (kind = "incremental" /\ pc # "idle") =>
             IF applied' = applied + 1
             THEN LET r == (updated \o created)[applied + 1]
                  IN  /\ pc = "merge"
                      /\ rows' = ApplyTo(rows, r, r, DOMAIN ids)
                      /\ fts' = ApplyTo(fts, r, FtsValues(r), DOMAIN ids)
             ELSE /\ applied' = applied
                  /\ rows' = rows
                  /\ fts' = fts
         ]_vars

C15_Witness ==
    /\ kind = "incremental"
    /\ result = "interrupted"
    /\ applied = 1
    /\ Len(updated \o created) = 2
    /\ LET delta == updated \o created
       IN  /\ delta[1].index_name \in KnownAtStart
           /\ InStore(delta[1])
           /\ delta[2].index_name \notin RowIds \cup FtsIds
    /\ rows # prev.rows

\* the number of rows of table with that identifier
RowsOf(table, name) == Cardinality({i \in 1..Len(table) : table[i].index_name = name})

\* C16: an identifier that the row store did not hold when the incremental
\* run began and that occurs more than once in updated + created has one
\* row in the row store and one in the text index as soon as its first
\* occurrence is applied, none before, and the insert never fails on a
\* second occurrence; the row is that of the last occurrence applied.
C16_RunningKnownMap ==
    kind = "incremental" =>
        /\ error # "IntegrityError"
        /\ LET delta == updated \o created
           IN  \A i, j \in 1..Len(delta) :
                   ( /\ i < j
                     /\ delta[i].index_name = delta[j].index_name
                     /\ delta[i].index_name \notin KnownAtStart )
                   => LET done == {k \in 1..applied :
                                     delta[k].index_name = delta[i].index_name}
                          held == IF done = {} THEN 0 ELSE 1
                      IN  /\ RowsOf(rows, delta[i].index_name) = held
                          /\ RowsOf(fts, delta[i].index_name) = held
                          /\ done # {} =>
                                InStore(delta[CHOOSE k \in done : \A m \in done : m <= k])

C16_Witness ==
    /\ kind = "incremental"
    /\ pc = "idle"
    /\ result = "done"
    /\ updated # << >>
    /\ created # << >>
    /\ applied = Len(updated) + Len(created)
    /\ \E i \in 1..Len(updated), j \in 1..Len(created) :
          /\ updated[i].index_name = created[j].index_name
          /\ updated[i].index_name \notin KnownAtStart
          /\ RowsOf(rows, updated[i].index_name) = 1
          /\ RowsOf(fts, updated[i].index_name) = 1

\* ------------------------------------------------------------------------
\* The full sync on catalogs of every size around the multiples of the
\* batch size: at the head of every batch one record with a 36-character
\* identifier and, behind it, records with a short identifier.  The tasks
\* of the batches complete in any order.
\* ------------------------------------------------------------------------
Totals ==
    {k * FullLimit + d : k \in 0..MaxBatches, d \in {-2, -1, 0, 1, 2}} \cap Nat

RECURSIVE Sized(_, _)
Sized(size, b) ==
    IF size <= 0 THEN << >>
    ELSE <<[raw |-> RawRecord(Name(b, IndexNameLen), RawSec(1), RawSec(1)), n |-> 1]>>
         \o (IF size = 1 THEN << >>
             ELSE <<[raw |-> RawRecord(Name(0, IndexNameLen - 1), RawSec(1), RawSec(1)),
                     n |-> Min(size, FullLimit) - 1]>>)
         \o Sized(size - FullLimit, b + 1)

InitBatches ==
    /\ \E size \in Totals : catalog = Sized(size, 1)
    /\ rows = << >>
    /\ fts = << >>
    /\ pc = "idle"
    /\ kind = "none"
    /\ result = "none"
    /\ error = "none"
    /\ page = NoPage
    /\ runs = 0
    /\ faults = 0
    /\ faulty = FALSE
    /\ ids = << >>
    /\ offset = 0
    /\ limit = 0
    /\ updated = << >>
    /\ created = << >>
    /\ applied = 0
    /\ total = 0
    /\ batches = << >>
    /\ next = 0
    /\ inserted = 0
    /\ warned = FALSE
    /\ futures = << >>
    /\ prev = NoSnapshot
    /\ asked = "none"
    /\ query = NoQuery
    /\ found = << >>
    /\ fault = "none"
    /\ listed = NoListing
    /\ client = NoClient

NextBatches ==
    \/ FullStart
    \/ TaskCompletes
    \/ FullInsertFetched
    \/ FullIndex

SpecBatches == InitBatches /\ [][NextBatches]_vars

\* C17: the batches of a full sync are pairwise disjoint, each limit is
\* between 1 and 5000, every batch but the last has limit 5000, the last
\* has the remainder (5000 when the total is a multiple of 5000), and
\* together they cover [0, total) exactly.
C17_BatchPartition ==
    (kind = "full" /\ error # "TotalRequest") =>
        /\ total >= 0
        /\ \A i \in 1..Len(batches) :
              /\ 1 <= batches[i].limit /\ batches[i].limit <= FullLimit
              /\ i < Len(batches) => batches[i].limit = FullLimit
              /\ batches[i].offset + batches[i].limit <= total
        /\ \A i, j \in 1..Len(batches) :
              i < j => batches[i].offset + batches[i].limit <= batches[j].offset
        /\ \A x \in {0, total - 1} \cup {k * FullLimit + d : k \in 0..(MaxBatches + 1),
                                                       d \in {-1, 0}} :
              (0 <= x /\ x < total) =>
                  \E i \in 1..Len(batches) :
                      batches[i].offset <= x /\ x < batches[i].offset + batches[i].limit
        /\ IF total = 0 THEN batches = << >>
           ELSE /\ batches[1].offset = 0
                /\ \A i \in 1..(Len(batches) - 1) :
                      batches[i + 1].offset = batches[i].offset + batches[i].limit
                /\ batches[Len(batches)].offset + batches[Len(batches)].limit = total
                /\ batches[Len(batches)].limit =
                      (IF total % FullLimit = 0 THEN FullLimit ELSE total % FullLimit)

C17_Witness ==
    /\ kind = "full"
    /\ result = "done"
    /\ total = 2 * FullLimit + 1
    /\ Len(batches) = 3
    /\ batches[2].limit = FullLimit
    /\ batches[3] = [offset |-> 2 * FullLimit, limit |-> 1]
    /\ next = 4

\* the rows of the first k batches as their tasks fetched them, in the order
\* the batches were submitted
RECURSIVE Loaded(_)
Loaded(k) ==
    IF k <= 0 THEN << >>
    ELSE Loaded(k - 1)
         \o recently_updated(catalog, batches[k].offset, batches[k].limit,
                             futures[k]).resources

\* C18: whatever the order in which the fetch tasks of a full sync
\* complete, a task that completes writes to neither table; the row store
\* changes only when the loop consumes the next batch in submission order,
\* by that batch's rows and nothing else; so the row store always holds the
\* rows of the batches consumed so far, in submission order, which depends
\* on what the tasks fetched and not on when they completed.
C18_SingleWriter ==
    /\ [](kind = "full" => rows = Loaded(next - 1))
    /\ [][ (kind = "full" /\ pc = "full_insert") =>
             /\ futures' # futures => (rows' = rows /\ fts' = fts)
             /\ rows' # rows =>
                   /\ futures[next] # "pending"
                   /\ futures' = futures
                   /\ next' = next + 1
                   /\ rows' = rows \o recently_updated(catalog, batches[next].offset,
                                         batches[next].limit, futures[next]).resources
         ]_vars

C18_Witness ==
    /\ kind = "full"
    /\ pc = "full_insert"
    /\ Len(batches) = 3
    /\ futures[1] = "ok"
    /\ futures[2] = "pending"
    /\ futures[3] = "ok"
    /\ next = 2
    /\ Len(rows) = 1

\* the time the sort puts the i-th record of updated + created at: its
\* updated in the updated delta, its created in the created delta, the
\* greatest time of all when it has none
TimeOf(i) ==
    LET t == IF i <= Len(updated) THEN updated[i].updated
             ELSE created[i - Len(updated)].created
    IN  IF t = None THEN DatetimeMax ELSE t

\* C19 as stated: whenever the merge can be interrupted, no record of
\* updated + created that is applied has a later time than one that is not
\* yet applied.
C19_Stated ==
    (kind = "incremental" /\ (pc = "merge" \/ result = "interrupted")) =>
        \A i, j \in 1..(Len(updated) + Len(created)) :
            (i <= applied /\ applied < j) => TimeOf(i) <= TimeOf(j)

\* the identifiers of the records of updated + created
DeltaNames ==
    {updated[i].index_name : i \in 1..Len(updated)}
    \cup {created[i].index_name : i \in 1..Len(created)}

\* the last of the first k records of updated + created with that
\* identifier, as a list of one record or of none
LastApplied(name, k) ==
    LET delta == updated \o created
        done == {i \in 1..k : delta[i].index_name = name}
    IN  IF done = {} THEN << >>
        ELSE <<delta[CHOOSE i \in done : \A m \in done : m <= i]>>

\* C20: throughout an incremental run every row the row store held when the
\* run began is still there, unchanged when no record of its identifier has
\* been applied and equal in every field to the fetched record when one has;
\* no step of the run removes an identifier from either table, a step
\* leaves alone every row of either table whose identifier is not in the
\* delta, and the record a step applies replaces the whole row of its
\* identifier in both tables.
C20_IncrementalFrame ==
    /\ [](kind = "incremental" =>
            /\ Len(rows) >= Len(prev.rows)
            /\ \A i \in 1..Len(prev.rows) :
                  LET r == LastApplied(prev.rows[i].index_name, applied)
                  IN  rows[i] = IF r = << >> THEN prev.rows[i] ELSE r[1])
    /\ [][ (kind = "incremental" /\ pc # "idle") =>
             /\ RowIds \subseteq RowIds'
             /\ FtsIds \subseteq FtsIds'
             /\ Len(rows') >= Len(rows) /\ Len(fts') >= Len(fts)
             /\ \A i \in 1..Len(rows) :
                   rows[i].index_name \notin DeltaNames => rows'[i] = rows[i]
             /\ \A i \in 1..Len(fts) :
                   fts[i].index_name \notin DeltaNames => fts'[i] = fts[i]
             /\ applied' = applied + 1 =>
                   LET r == (updated \o created)[applied + 1]
                   IN  /\ \A i \in 1..Len(rows') :
                             rows'[i].index_name = r.index_name => rows'[i] = r
                       /\ \A i \in 1..Len(fts') :
                             fts'[i].index_name = r.index_name => fts'[i] = FtsValues(r)
         ]_vars

C20_Witness ==
    /\ kind = "incremental"
    /\ pc = "idle"
    /\ result = "done"
    /\ Len(prev.rows) = 2
    /\ Len(rows) = 2
    /\ \E i, j \in 1..2 :
          /\ rows[i] # prev.rows[i]
          /\ rows[i].index_name = prev.rows[i].index_name
          /\ rows[i].title # prev.rows[i].title
          /\ rows[i].source # prev.rows[i].source
          /\ rows[i].index_name \in DeltaNames
          /\ rows[j] = prev.rows[j]
          /\ rows[j].index_name \notin DeltaNames
          /\ \E k \in 1..Len(fts) : fts[k] = FtsValues(rows[i])

\* an incremental run that met no transport fault, after an incremental run
\* that met none and was stopped in its merge
Resumed ==
    /\ kind = "incremental"
    /\ ~faulty
    /\ prev.kind = "incremental"
    /\ prev.result = "interrupted"
    /\ ~prev.faulty

\* C21 as stated: when an incremental run that was stopped in its merge is
\* followed by an incremental run that completes, every record of the first
\* run's delta is applied to the row store and to the text index.
C21_Stated ==
    (Resumed /\ pc = "idle" /\ result = "done") =>
        \A i \in 1..Len(prev.delta) : InStore(prev.delta[i])

\* C22 as stated: a scan of an incremental run ends only by going on to the
\* next scan or to the merge step, unless a page request raises on a
\* transport fault.
C22_Stated ==
    [][ ( /\ pc \in {"scan_updated", "scan_created"}
          /\ pc' \notin {"scan_updated", "scan_created", "merge"} )
        => error' = "Timeout" ]_vars

(***************************************************************************)
(* The DataGovIndia object of api.py: the gate in front of its queries.   *)
(* The clock counts minutes and moves by half a refresh interval.         *)
(***************************************************************************)

HalfInterval == RefreshInterval \div 2

QueryMethods ==
    {"list_orgtypes", "list_orgnames", "list_sectors", "list_sources",
     "list_all_attributes", "list_recently_updated", "list_recently_created",
     "search", "get_resource_api"}

should_refreshAtInterval(c) ==
    \/ c.last_refreshed_at = None
    \/ c.now - c.last_refreshed_at >= RefreshInterval

should_refresh(c) ==
    \/ c.last_refreshed_at = None
    \/ c.now - c.last_refreshed_at > RefreshInterval

\* refresh_on_interval behind the auto_refresh test every query starts with
refresh_on_interval(c) == c.auto_refresh /\ should_refresh(c)

\* every resource in the same condition: new, current, stale, or with an
\* updated time the remote no longer gives
ClientConfs == { [i \in 1..NumIds |-> Configs[k]] : k \in {2, 5, 6, 8} }

InitClient ==
    /\ \E conf \in ClientConfs :
          /\ catalog = CatalogOf(conf, 1)
          /\ rows = LocalOf(conf, 1)
          /\ fts = [i \in 1..Len(LocalOf(conf, 1)) |-> FtsSelect(LocalOf(conf, 1)[i])]
    /\ pc = "idle"
    /\ kind = "none"
    /\ result = "none"
    /\ error = "none"
    /\ page = NoPage
    /\ runs = 0
    /\ faults = 0
    /\ faulty = FALSE
    /\ ids = << >>
    /\ offset = 0
    /\ limit = 0
    /\ updated = << >>
    /\ created = << >>
    /\ applied = 0
    /\ total = 0
    /\ batches = << >>
    /\ next = 0
    /\ inserted = 0
    /\ warned = FALSE
    /\ futures = << >>
    /\ prev = NoSnapshot
    /\ asked = "none"
    /\ query = NoQuery
    /\ found = << >>
    /\ fault = "none"
    /\ listed = NoListing
    /\ \E auto_refresh \in BOOLEAN : client = NewClient(auto_refresh)

Quiet == <<catalog, store, pc, kind, result, error, page, runs, faults, faulty,
           incr, full, prev, asked, query, found, fault, listed>>

\* time passes between two calls
Tick ==
    /\ pc = "idle"
    /\ client.op = "none"
    /\ client.now < MaxTicks * HalfInterval
    /\ client' = [client EXCEPT !.now = @ + HalfInterval]
    /\ UNCHANGED Quiet

\* a query is called: its first statement decides whether it refreshes
ClientAsk ==
    \E op \in QueryMethods :
        /\ pc = "idle"
        /\ client.op = "none"
        /\ client' = [client EXCEPT !.op = op, !.ran = refresh_on_interval(client),
                                    !.full = FALSE, !.at = runs, !.outcome = "none"]
        /\ UNCHANGED Quiet

\* refresh(full) is called directly
ClientCall ==
    \E whole \in BOOLEAN :
        /\ pc = "idle"
        /\ client.op = "none"
        /\ client' = [client EXCEPT !.op = "refresh", !.ran = TRUE,
                                    !.full = whole, !.at = runs, !.outcome = "none"]
        /\ UNCHANGED Quiet

\* refresh hands over to metadata.refresh
ClientRefresh ==
    /\ client.op # "none"
    /\ client.ran
    /\ runs = client.at
    /\ IF client.full THEN FullStart ELSE IncStart

\* the call returns, or lets the exception of the sync through
ClientAnswer ==
    /\ pc = "idle"
    /\ client.op # "none"
    /\ client.ran => runs > client.at
    /\ client' =
          IF client.ran /\ result = "raised"
          THEN [client EXCEPT !.op = "none", !.outcome = "raised"]
          ELSE [client EXCEPT !.op = "none", !.outcome = "answered",
                              !.last_refreshed_at = IF client.ran THEN client.now ELSE @]
    /\ UNCHANGED Quiet

NextClient ==
    \/ Tick
    \/ ClientAsk
    \/ ClientCall
    \/ ClientRefresh
    \/ FullInsertBatch
    \/ FullIndex
    \/ ScanUpdated
    \/ ScanCreated
    \/ MergeRecord
    \/ MergeDone
    \/ ClientAnswer

SpecClient == InitClient /\ [][NextClient]_vars

\* C23: a query refreshes before it answers exactly when auto_refresh is on
\* and last_refreshed_at is unset or more than refresh_interval ago; the sync
\* of a query is incremental; a query that answers after its sync leaves
\* last_refreshed_at at the current time; and while the query of a client
\* without auto_refresh is under way the local store does not change.
C23_AutoRefreshGate ==
    [][ /\ (client.op = "none" /\ client'.op \in QueryMethods) =>
              (client'.ran <=>
                 /\ client.auto_refresh
                 /\ \/ client.last_refreshed_at = None
                    \/ client.now - client.last_refreshed_at > RefreshInterval)
        /\ (client.op \in QueryMethods /\ runs' # runs) =>
              (client.ran /\ kind' = "incremental")
        /\ (client.op \in QueryMethods /\ client'.outcome = "answered") =>
              /\ client.ran => (runs > client.at /\ client'.last_refreshed_at = client'.now)
              /\ ~client.ran =>
                    (runs = client.at /\ client'.last_refreshed_at = client.last_refreshed_at)
        /\ (client.op \in QueryMethods /\ ~client.auto_refresh) => UNCHANGED store
      ]_vars

\* an hour and a half after it was made, a client with auto_refresh has
\* answered a query behind an incremental sync that changed the local rows
C23_Witness ==
    /\ client.auto_refresh
    /\ client.op = "none"
    /\ client.outcome = "answered"
    /\ client.ran
    /\ kind = "incremental"
    /\ result = "done"
    /\ runs = 1
    /\ client.now = 3 * HalfInterval
    /\ client.last_refreshed_at = client.now
    /\ rows # prev.rows

====
